---- MODULE Spec2Model ----
(***************************************************************************)
(* Model of the advisory-lock crate: AdvisoryFileLock (src/src/lib.rs)     *)
(* over its two platform backends (src/src/unix.rs, src/src/windows.rs).   *)
(*                                                                         *)
(* The crate keeps no lock state of its own: a handle is an open file and  *)
(* a mode.  The lock lives in the kernel's lock table, so the model has    *)
(* the table as state and the native calls flock / LockFileEx /            *)
(* UnlockFileEx as the environment the backend code talks to.  The native  *)
(* calls follow their documented contracts:                                *)
(*   flock(2): a lock belongs to the open file description; LOCK_SH and    *)
(*     LOCK_EX conflict as reader/writer between descriptions; a second    *)
(*     request through the same descriptor converts the lock it has;       *)
(*     EWOULDBLOCK is returned only with LOCK_NB; a waiting call may fail  *)
(*     with EINTR; LOCK_UN succeeds whether or not a lock is held; close   *)
(*     releases the lock.                                                  *)
(*   LockFileEx: a lock is on a byte range of the file, which may lie      *)
(*     beyond its end, and belongs to the file handle; an exclusive lock   *)
(*     cannot overlap any locked region (the caller's own included);       *)
(*     shared locks overlap shared locks and stack, one UnlockFileEx per   *)
(*     LockFileEx; with LOCKFILE_FAIL_IMMEDIATELY a contended request      *)
(*     fails with ERROR_LOCK_VIOLATION; UnlockFileEx of a region that is   *)
(*     not locked fails with ERROR_NOT_LOCKED; CloseHandle releases the    *)
(*     handle's locks.                                                     *)
(***************************************************************************)
EXTENDS Integers, FiniteSets, Sequences, TLC

NumHandles == 3
MaxStack == 2
\* The width of a DWORD, scaled down from 32 bits.
DwordBits == 2

Handles == 1..NumHandles
Files == {"foo.txt", "bar.txt"}
NoFile == "none"

Backends == {"unix", "windows"}

FileLockMode == {"Exclusive", "Shared"}

Ok == [tag |-> "Ok", err |-> "none"]
AlreadyLocked == [tag |-> "AlreadyLocked", err |-> "none"]
Io(e) == [tag |-> "Io", err |-> e]

VARIABLES backend, exists, hstate, file, file_lock_mode, kmode, kcount, last

vars == <<backend, exists, hstate, file, file_lock_mode, kmode, kcount, last>>

(***************************************************************************)
(* The kernel's lock table.  kcount[h] is the number of locks the open     *)
(* file of handle h holds (0 or 1 under flock), kmode[h] their kind.       *)
(***************************************************************************)
Open(h) == hstate[h] # "none"

KHeld(h) == kcount[h] > 0

SameFile(g, h) == Open(g) /\ Open(h) /\ file[g] = file[h]

\* Mutant: a lock manager that queues new requests behind a waiting LOCK_EX.
FlockConflict_queued(h, want) ==
    \E g \in Handles \ {h} :
        /\ SameFile(g, h)
        /\ \/ KHeld(g) /\ (want = "EX" \/ kmode[g] = "EX")
           \/ hstate[g] = "lock" /\ file_lock_mode[g] = "Exclusive"

FlockConflict(h, want) ==
    \E g \in Handles \ {h} :
        SameFile(g, h) /\ KHeld(g) /\ (want = "EX" \/ kmode[g] = "EX")

\* Byte ranges of a file. A DWORD holds 0 .. u32_MAX; an offset and a length
\* are two DWORDs each, high and low.
u32_MAX == 2^DwordBits - 1

MaxOffset == (u32_MAX + 1) * (u32_MAX + 1) - 1

ByteRange(Offset, OffsetHigh, nNumberOfBytesLow, nNumberOfBytesHigh) ==
    LET offset == OffsetHigh * (u32_MAX + 1) + Offset
        length == nNumberOfBytesHigh * (u32_MAX + 1) + nNumberOfBytesLow
    IN  {b \in 0..MaxOffset : offset <= b /\ b < offset + length}

create_overlapped == [Offset |-> u32_MAX, OffsetHigh |-> u32_MAX]

\* The range lock_file passes to LockFileEx.
windows_lock_range ==
    LET overlapped == create_overlapped IN
    ByteRange(overlapped.Offset, overlapped.OffsetHigh, 1, 0)

\* Mutant: unlock_file unlocking from offset 0 to the end.
windows_unlock_range_whole == ByteRange(0, 0, u32_MAX, u32_MAX)

\* The range unlock_file passes to UnlockFileEx.
windows_unlock_range ==
    LET overlapped == create_overlapped IN
    ByteRange(overlapped.Offset, overlapped.OffsetHigh, 1, 0)

\* The range of the locks handle g holds: every lock in the table was
\* taken by lock_file.
LockedRange(g) == windows_lock_range

LockFileExConflict(h, want, range) ==
    \E g \in Handles :
        /\ SameFile(g, h)
        /\ KHeld(g)
        /\ range \cap LockedRange(g) # {}
        /\ IF want = "EX" THEN TRUE ELSE g # h /\ kmode[g] = "EX"

UnixFaults == {"ENOLCK"}
WindowsFaults == {"ERROR_INVALID_HANDLE"}

(***************************************************************************)
(* Native calls.  Each yields the set of outcomes the kernel can produce   *)
(* in the current state: the returned value, the error code left for       *)
(* last_os_error / GetLastError, and the effect on the lock table          *)
(* ("grant", "wait": the calling thread is suspended, "release", "none").  *)
(***************************************************************************)
Native(r, e, eff, m) == [ret |-> r, errno |-> e, effect |-> eff, kind |-> m]

flock(h, flags) ==
    LET want == IF "LOCK_EX" \in flags THEN "EX" ELSE "SH" IN
    {Native(-1, e, "none", want) : e \in UnixFaults}
    \cup
    IF FlockConflict(h, want)
    THEN IF "LOCK_NB" \in flags
         THEN {Native(-1, "EWOULDBLOCK", "none", want)}
         ELSE {Native(0, "none", "wait", want)}
    ELSE {Native(0, "none", "grant", want)}

flock_un(h) ==
    {Native(-1, e, "none", "none") : e \in UnixFaults}
    \cup {Native(0, "none", "release", "none")}

LockFileEx(h, flags, range) ==
    LET want == IF "LOCKFILE_EXCLUSIVE_LOCK" \in flags THEN "EX" ELSE "SH" IN
    {Native(0, e, "none", want) : e \in WindowsFaults}
    \cup
    IF LockFileExConflict(h, want, range)
    THEN IF "LOCKFILE_FAIL_IMMEDIATELY" \in flags
         THEN {Native(0, "ERROR_LOCK_VIOLATION", "none", want)}
         ELSE {Native(1, "none", "wait", want)}
    ELSE {Native(1, "none", "grant", want)}

UnlockFileEx(h, range) ==
    {Native(0, e, "none", "none") : e \in WindowsFaults}
    \cup
    IF KHeld(h) /\ range = LockedRange(h)
    THEN {Native(1, "none", "release", "none")}
    ELSE {Native(0, "ERROR_NOT_LOCKED", "none", "none")}

(***************************************************************************)
(* The backends: the flags lock_file builds and the result it makes of    *)
(* the native return value.                                                *)
(***************************************************************************)
\* Mutant: LOCK_NB left out.
unix_lock_file_flags_blocking(mode, immediate) ==
    IF mode = "Shared" THEN {"LOCK_SH"} ELSE {"LOCK_EX"}

\* Mutant: the two flock modes exchanged.
unix_lock_file_flags_swapped(mode, immediate) ==
    (IF mode = "Shared" THEN {"LOCK_EX"} ELSE {"LOCK_SH"})
    \cup (IF immediate THEN {"LOCK_NB"} ELSE {})

unix_lock_file_flags(mode, immediate) ==
    (IF mode = "Shared" THEN {"LOCK_SH"} ELSE {"LOCK_EX"})
    \cup (IF immediate THEN {"LOCK_NB"} ELSE {})

\* Mutant: the test of the value flock returns inverted.
unix_lock_file_inverted(result, code) ==
    IF result = 0
    THEN IF code = "EWOULDBLOCK" THEN AlreadyLocked ELSE Io(code)
    ELSE Ok

\* Mutant: every failure of flock taken for contention.
unix_lock_file_any_error(result, code) ==
    IF result # 0 THEN AlreadyLocked ELSE Ok

unix_lock_file(result, code) ==
    IF result # 0
    THEN IF code = "EWOULDBLOCK" THEN AlreadyLocked ELSE Io(code)
    ELSE Ok

\* Mutant: the result of flock(LOCK_UN) ignored.
unix_unlock_file_swallow(result, code) == Ok

unix_unlock_file(result, code) ==
    IF result = 0 THEN Ok ELSE Io(code)

\* Mutant: the exclusive flag set whatever the mode.
windows_lock_file_flags_exclusive(mode, immediate) ==
    {"LOCKFILE_EXCLUSIVE_LOCK"}
    \cup (IF immediate THEN {"LOCKFILE_FAIL_IMMEDIATELY"} ELSE {})

windows_lock_file_flags(mode, immediate) ==
    (IF mode = "Exclusive" THEN {"LOCKFILE_EXCLUSIVE_LOCK"} ELSE {})
    \cup (IF immediate THEN {"LOCKFILE_FAIL_IMMEDIATELY"} ELSE {})

\* Mutant: the test of the value LockFileEx returns inverted.
windows_lock_file_inverted(result, raw_error) ==
    IF result = 1
    THEN IF raw_error = "ERROR_LOCKED" THEN AlreadyLocked ELSE Io(raw_error)
    ELSE Ok

windows_lock_file(result, raw_error) ==
    IF result # 1
    THEN IF raw_error = "ERROR_LOCKED" THEN AlreadyLocked ELSE Io(raw_error)
    ELSE Ok

\* Mutant: ERROR_NOT_LOCKED handed to the caller like any other error.
windows_unlock_file_strict(result, raw_error) ==
    IF result = 1 THEN Ok ELSE Io(raw_error)

windows_unlock_file(result, raw_error) ==
    IF result = 1
    THEN Ok
    ELSE IF raw_error = "ERROR_NOT_LOCKED" THEN Ok ELSE Io(raw_error)

\* The native call lock_impl / try_lock_impl make through lock_file for
\* handle h, with the mode the handle was constructed with.
NativeLock(h, immediate) ==
    IF backend = "unix"
    THEN flock(h, unix_lock_file_flags(file_lock_mode[h], immediate))
    ELSE LockFileEx(h, windows_lock_file_flags(file_lock_mode[h], immediate),
                    windows_lock_range)

lock_file(o) ==
    IF backend = "unix"
    THEN unix_lock_file(o.ret, o.errno)
    ELSE windows_lock_file(o.ret, o.errno)

NativeUnlock(h) ==
    IF backend = "unix" THEN flock_un(h) ELSE UnlockFileEx(h, windows_unlock_range)

unlock_file(o) ==
    IF backend = "unix"
    THEN unix_unlock_file(o.ret, o.errno)
    ELSE windows_unlock_file(o.ret, o.errno)

(***************************************************************************)
(* Effects of the native calls on the lock table.                          *)
(***************************************************************************)
\* Mutant: flock locks counted per request, as those of LockFileEx are.
Granted_counted(h, kind) ==
    /\ kmode' = [kmode EXCEPT ![h] = kind]
    /\ kcount' = [kcount EXCEPT ![h] = @ + 1]

Granted(h, kind) ==
    /\ kmode' = [kmode EXCEPT ![h] = kind]
    /\ kcount' = [kcount EXCEPT ![h] = IF backend = "unix" THEN 1 ELSE @ + 1]

\* Mutant: a release that takes the locks of every handle of the file along,
\* as closing a descriptor does with POSIX record locks.
Released_file(h) ==
    /\ kcount' = [g \in Handles |-> IF SameFile(g, h) THEN 0 ELSE kcount[g]]
    /\ kmode' = [g \in Handles |-> IF SameFile(g, h) THEN "none" ELSE kmode[g]]

Released(h) ==
    LET n == IF backend = "unix" \/ kcount[h] = 0 THEN 0 ELSE kcount[h] - 1 IN
    /\ kcount' = [kcount EXCEPT ![h] = n]
    /\ kmode' = [kmode EXCEPT ![h] = IF n = 0 THEN "none" ELSE @]

Closed(h) ==
    /\ kcount' = [kcount EXCEPT ![h] = 0]
    /\ kmode' = [kmode EXCEPT ![h] = "none"]

\* The stacked locks of one handle are counted up to MaxStack.
CanStack(h) == backend = "unix" \/ kcount[h] < MaxStack

(***************************************************************************)
(* What the callers see: another handle holds a lock on h's file that      *)
(* conflicts with the mode h was constructed with.                         *)
(***************************************************************************)
Holds(h) == Open(h) /\ kcount[h] > 0

Conflicting(g, h) ==
    /\ g # h
    /\ SameFile(g, h)
    /\ Holds(g)
    /\ (file_lock_mode[h] = "Exclusive" \/ file_lock_mode[g] = "Exclusive")

Contended(h) == \E g \in Handles : Conflicting(g, h)

\* The call that returned last: the operation, its result, the error code
\* the native call left, whether the call emitted a log::error! record, and
\* whether its thread had been suspended.
Call(op, res, o) ==
    [op |-> op, res |-> res, errno |-> o.errno, logged |-> FALSE, waited |-> FALSE]

NoCall ==
    [op |-> "none", res |-> Ok, errno |-> "none", logged |-> FALSE, waited |-> FALSE]

Init ==
    /\ backend \in Backends
    /\ exists \in SUBSET Files
    /\ hstate = [h \in Handles |-> "none"]
    /\ file = [h \in Handles |-> NoFile]
    /\ file_lock_mode = [h \in Handles |-> "none"]
    /\ kmode = [h \in Handles |-> "none"]
    /\ kcount = [h \in Handles |-> 0]
    /\ last = NoCall

\* Failures of open that are not the absence of the file.
OpenFaults == {"PermissionDenied"}

\* Mutant: create(true) whatever the mode.
OpenOptions_create(mode) ==
    LET is_exclusive == mode = "Exclusive" IN
    [read |-> TRUE, create |-> TRUE, write |-> is_exclusive]

\* The options new opens the file with.
OpenOptions(mode) ==
    LET is_exclusive == mode = "Exclusive" IN
    [read |-> TRUE, create |-> is_exclusive, write |-> is_exclusive]

\* OpenOptions::open: the results it can return for path.
open(options, path) ==
    {Io(e) : e \in OpenFaults}
    \cup IF options.create \/ path \in exists THEN {Ok} ELSE {Io("NotFound")}

\* AdvisoryFileLock::new(path, file_lock_mode)
new(h, path, mode) ==
    /\ hstate[h] = "none"
    /\ LET options == OpenOptions(mode) IN
       \E r \in open(options, path) :
        /\ last' = [NoCall EXCEPT !.op = "new", !.res = r, !.errno = r.err]
        /\ IF r = Ok
           THEN /\ exists' = IF options.create THEN exists \cup {path} ELSE exists
                /\ hstate' = [hstate EXCEPT ![h] = "idle"]
                /\ file' = [file EXCEPT ![h] = path]
                /\ file_lock_mode' = [file_lock_mode EXCEPT ![h] = mode]
           ELSE UNCHANGED <<exists, hstate, file, file_lock_mode>>
    /\ UNCHANGED <<backend, kmode, kcount>>

\* The thread of handle h is suspended inside the call hstate[h] names.
Waiting(h) == hstate[h] \in {"lock", "try_lock"}

\* lock_impl / try_lock_impl: lock_file(handle, file_lock_mode, immediate).
\* The native call returns at once, or suspends the calling thread.
lock_impl(h, immediate, op) ==
    \E o \in NativeLock(h, immediate) :
        \/ /\ o.effect = "none"
           /\ last' = Call(op, lock_file(o), o)
           /\ UNCHANGED <<hstate, kmode, kcount>>
        \/ /\ o.effect = "grant"
           /\ CanStack(h)
           /\ Granted(h, o.kind)
           /\ last' = Call(op, lock_file(o), o)
           /\ UNCHANGED hstate
        \/ /\ o.effect = "wait"
           /\ hstate' = [hstate EXCEPT ![h] = op]
           /\ UNCHANGED <<kmode, kcount, last>>

\* AdvisoryFileLock::lock
lock(h) ==
    /\ hstate[h] = "idle"
    /\ lock_impl(h, FALSE, "lock")
    /\ UNCHANGED <<backend, exists, file, file_lock_mode>>

\* AdvisoryFileLock::try_lock
try_lock(h) ==
    /\ hstate[h] = "idle"
    /\ lock_impl(h, TRUE, "try_lock")
    /\ UNCHANGED <<backend, exists, file, file_lock_mode>>

\* The kernel grants the lock a suspended call waits for, and lock_file returns.
grant(h) ==
    /\ Waiting(h)
    /\ \E o \in NativeLock(h, FALSE) :
        /\ o.effect = "grant"
        /\ CanStack(h)
        /\ Granted(h, o.kind)
        /\ last' = [Call(hstate[h], lock_file(o), o) EXCEPT !.waited = TRUE]
    /\ hstate' = [hstate EXCEPT ![h] = "idle"]
    /\ UNCHANGED <<backend, exists, file, file_lock_mode>>

\* A signal interrupts the suspended flock, which fails with EINTR.
interrupt(h) ==
    /\ Waiting(h)
    /\ backend = "unix"
    /\ LET o == Native(-1, "EINTR", "none", "none") IN
       last' = [Call(hstate[h], lock_file(o), o) EXCEPT !.waited = TRUE]
    /\ hstate' = [hstate EXCEPT ![h] = "idle"]
    /\ UNCHANGED <<backend, exists, file, file_lock_mode, kmode, kcount>>

\* AdvisoryFileLock::unlock
unlock(h) ==
    /\ hstate[h] = "idle"
    /\ \E o \in NativeUnlock(h) :
        /\ IF o.effect = "release" THEN Released(h) ELSE UNCHANGED <<kmode, kcount>>
        /\ last' = Call("unlock", unlock_file(o), o)
    /\ UNCHANGED <<backend, exists, hstate, file, file_lock_mode>>

\* Mutant: the error of the unlock handed on instead of logged.
drop_result_propagated(err) == [res |-> err, logged |-> FALSE]

\* What drop makes of the result of its unlock: the error goes to log::error!
\* and drop returns nothing.
drop_result(err) == [res |-> Ok, logged |-> err.tag # "Ok"]

\* impl Drop: one unlock, then the File field is closed with the handle.
drop(h) ==
    /\ hstate[h] = "idle"
    /\ \E o \in NativeUnlock(h) :
        LET d == drop_result(unlock_file(o)) IN
        last' = [Call("drop", d.res, o) EXCEPT !.logged = d.logged]
    /\ Closed(h)
    /\ hstate' = [hstate EXCEPT ![h] = "none"]
    /\ file' = [file EXCEPT ![h] = NoFile]
    /\ file_lock_mode' = [file_lock_mode EXCEPT ![h] = "none"]
    /\ UNCHANGED <<backend, exists>>

\* The paths new is called with. Handles are interchangeable and the locks of
\* different files never interact, so one handle ranging over both files
\* brings every case of two handles on different files about.
Paths(h) == IF h = 1 THEN Files ELSE {"foo.txt"}

Next ==
    \/ \E h \in Handles, mode \in FileLockMode :
        \E path \in Paths(h) : new(h, path, mode)
    \/ \E h \in Handles : lock(h)
    \/ \E h \in Handles : grant(h)
    \/ \E h \in Handles : interrupt(h)
    \/ \E h \in Handles : try_lock(h)
    \/ \E h \in Handles : unlock(h)
    \/ \E h \in Handles : drop(h)

Spec == Init /\ [][Next]_vars

\* The kernel's lock manager wakes a suspended call once its lock is free.
FairSpec == Spec /\ \A h \in Handles : WF_vars(grant(h))

\* The same with a lock manager that serves a suspended call whose lock is
\* free again and again, were it never free for long.
StrongFairSpec == Spec /\ \A h \in Handles : SF_vars(grant(h))

(***************************************************************************)
(* Properties.                                                             *)
(***************************************************************************)
\* Mutant: is_shared reporting the lock held instead of the mode.
Shared_while_held(h) == file_lock_mode[h] = "Shared" /\ Holds(h)

\* AdvisoryFileLock::is_shared, AdvisoryFileLock::is_exclusive
Shared(h) == file_lock_mode[h] = "Shared"
Exclusive(h) == file_lock_mode[h] = "Exclusive"

\* A failure of the native call that is not contention.
NativeFault(res) ==
    res.tag = "Io" /\ res.err \in UnixFaults \cup WindowsFaults \cup {"EINTR"}

\* C1: mutual exclusion. While a handle constructed Exclusive holds the lock
\* of a file, no other handle holds a lock of that file, so an Exclusive
\* acquisition succeeded only with no other holder and a Shared one only
\* with no Exclusive holder.
C1_MutualExclusion ==
    \A h \in Handles : \A g \in Handles \ {h} :
        (SameFile(g, h) /\ Holds(h) /\ Exclusive(h)) => ~Holds(g)

\* An Exclusive handle holds the lock and a try_lock of another handle of
\* the same file was just refused.
C1_Witness ==
    /\ last.op = "try_lock"
    /\ last.res.tag # "Ok"
    /\ ~NativeFault(last.res)
    /\ \E h \in Handles : \E g \in Handles \ {h} :
        SameFile(g, h) /\ Holds(h) /\ Exclusive(h) /\ hstate[g] = "idle"

\* Every holder of a lock on h's file other than h is a Shared handle, and
\* there is one.
AmongSharedHolders(h) ==
    /\ \E g \in Handles \ {h} : SameFile(g, h) /\ Holds(g)
    /\ \A g \in Handles \ {h} : (SameFile(g, h) /\ Holds(g)) => Shared(g)

\* C2: shared locks are compatible. lock() on a Shared handle, called while
\* other Shared handles hold the lock of the same file, does not wait and
\* returns Ok (a failure of the native call aside).
C2_SharedCompatible ==
    \A h \in Handles :
        (hstate[h] = "idle" /\ Shared(h) /\ AmongSharedHolders(h))
        => \A o \in NativeLock(h, FALSE) :
              /\ o.effect # "wait"
              /\ lock_file(o) = Ok \/ NativeFault(lock_file(o))
              /\ lock_file(o) = Ok <=> o.effect = "grant"

\* All the handles hold the Shared lock of one file at once, the last one
\* through a lock() that returned Ok.
C2_Witness ==
    /\ last.op = "lock"
    /\ last.res = Ok
    /\ \A h \in Handles : Holds(h) /\ Shared(h) /\ file[h] = "foo.txt"

\* C3: try_lock is decided by conflict alone. A failure of the native call
\* aside, try_lock() on a handle (that holds no lock yet) returns
\* AlreadyLocked when another handle holds a conflicting lock of the same
\* file and Ok when none does.
C3_TryLockByConflict ==
    [][\A h \in Handles :
        (hstate[h] = "idle" /\ kcount[h] = 0 /\ try_lock(h)
            /\ ~NativeFault(last'.res))
        => last'.res = IF Contended(h) THEN AlreadyLocked ELSE Ok]_vars

\* C4: while a handle holds the Shared lock of a file, try_lock() on an
\* Exclusive handle of that file returns AlreadyLocked; with every holder
\* gone it returns Ok.
C4_SharedThenExclusive ==
    [][\A b \in Handles :
        (hstate[b] = "idle" /\ Exclusive(b) /\ kcount[b] = 0 /\ try_lock(b)
            /\ ~NativeFault(last'.res))
        => /\ (\E a \in Handles \ {b} : SameFile(a, b) /\ Shared(a) /\ Holds(a))
                => last'.res = AlreadyLocked
           /\ (\A a \in Handles \ {b} : ~(SameFile(a, b) /\ Holds(a)))
                => last'.res = Ok]_vars

\* C5: while a handle holds the Exclusive lock of a file, try_lock() on a
\* Shared handle of that file returns AlreadyLocked; once it is released
\* the try_lock() returns Ok.
C5_ExclusiveThenShared ==
    [][\A b \in Handles :
        (hstate[b] = "idle" /\ Shared(b) /\ kcount[b] = 0 /\ try_lock(b)
            /\ ~NativeFault(last'.res))
        => /\ (\E a \in Handles \ {b} : SameFile(a, b) /\ Exclusive(a) /\ Holds(a))
                => last'.res = AlreadyLocked
           /\ (\A a \in Handles \ {b} : ~(SameFile(a, b) /\ Exclusive(a) /\ Holds(a)))
                => last'.res = Ok]_vars

\* The results try_lock() can return to handle h in the current state, the
\* failures of the native call that are not contention left out.
TryLockResults(h) ==
    {lock_file(o) : o \in {n \in NativeLock(h, TRUE) : ~NativeFault(lock_file(n))}}

\* Handle g is idle and the only lock that conflicts with its mode is h's.
OnlyConflict(g, h) ==
    /\ hstate[g] = "idle"
    /\ Conflicting(h, g)
    /\ \A k \in Handles : Conflicting(k, g) => k = h

\* After the step handle h holds no lock and try_lock() returns Ok to every
\* handle whose only conflict was with h's lock.
Acquirable(h) ==
    /\ kcount'[h] = 0
    /\ \A g \in Handles \ {h} : OnlyConflict(g, h) => TryLockResults(g)' = {Ok}

\* C6 as stated: right after unlock() returned Ok to a handle, or the handle
\* was dropped, it holds no lock and try_lock() returns Ok to any other
\* handle whose only conflict was with the released lock.
C6_ReleaseAcquirable ==
    [][\A h \in Handles :
        (hstate[h] = "idle"
            /\ \/ last'.op = "unlock" /\ last'.res = Ok /\ unlock(h)
               \/ last'.op = "drop" /\ drop(h))
        => Acquirable(h)]_vars

\* C6 amended: the same, for the unlock() of a handle that holds a single
\* acquisition (under LockFileEx each acquisition of a Shared handle is a
\* lock of its own, released by its own unlock), and for every drop.
C6_ReleaseAcquirableOnce ==
    [][\A h \in Handles :
        (hstate[h] = "idle"
            /\ \/ last'.op = "unlock" /\ last'.res = Ok /\ kcount[h] <= 1
                    /\ unlock(h)
               \/ last'.op = "drop" /\ drop(h))
        => Acquirable(h)]_vars

\* An Exclusive handle has just unlocked natively (UnlockFileEx succeeded)
\* and the other Exclusive handles of the file, until then in conflict
\* with it alone, are idle with the file free.
C6_Witness ==
    /\ backend = "windows"
    /\ last.op = "unlock" /\ last.res = Ok /\ last.errno = "none"
    /\ \A h \in Handles :
        hstate[h] = "idle" /\ Exclusive(h) /\ file[h] = "foo.txt" /\ ~Holds(h)

\* C7: the blocking lock() never returns AlreadyLocked. Whatever the native
\* call yields, lock() returns Ok or Io; AlreadyLocked comes from try_lock()
\* alone, when the native error is the contention code the backend tests.
C7_LockNeverAlreadyLocked ==
    /\ last.op = "lock" => last.res.tag \in {"Ok", "Io"}
    /\ last.res = AlreadyLocked
         => last.op = "try_lock" /\ last.errno \in {"EWOULDBLOCK", "ERROR_LOCKED"}
    /\ \A h \in Handles :
         hstate[h] = "idle"
         => \A o \in NativeLock(h, FALSE) : lock_file(o).tag \in {"Ok", "Io"}

\* A lock() that had to wait failed in the native call and returned Io.
C7_Witness ==
    last.op = "lock" /\ last.waited /\ last.res = Io("EINTR")

\* C8: try_lock() never blocks. In every reachable state the native call of
\* try_lock() returns at once and try_lock() yields Ok, AlreadyLocked or Io;
\* the native call of unlock() and drop returns at once; a thread is only
\* ever suspended inside lock().
C8_TryLockNeverBlocks ==
    \A h \in Handles :
        /\ hstate[h] \in {"none", "idle", "lock"}
        /\ hstate[h] = "idle"
             => /\ \A o \in NativeLock(h, TRUE) :
                     /\ o.effect \in {"grant", "none"}
                     /\ lock_file(o).tag \in {"Ok", "AlreadyLocked", "Io"}
                /\ \A o \in NativeUnlock(h) : o.effect \in {"release", "none"}

\* A try_lock() on a handle whose file another handle holds locked was
\* refused and returned without its thread having been suspended.
C8_Witness ==
    /\ last.op = "try_lock"
    /\ last.res.tag \in {"AlreadyLocked", "Io"}
    /\ ~NativeFault(last.res)
    /\ ~last.waited
    /\ \E g \in Handles : hstate[g] = "idle" /\ Contended(g)

\* A lock that conflicts with the mode of handle h is held on its file, by
\* another handle or, for an Exclusive handle, by h itself.
ConflictFor(h) ==
    \E g \in Handles :
        SameFile(g, h) /\ Holds(g) /\ (Exclusive(h) \/ Exclusive(g))

\* C9: a blocked lock() is granted after release. Under weak fairness of the
\* lock manager no handle stays suspended in lock() for ever once the
\* conflicting locks are released for good; the suspended lock() returns Ok
\* with the lock held, only from a state where no other handle holds a
\* conflicting lock (or fails in the native call).
C9_BlockedLockGranted ==
    /\ \A h \in Handles : []<>(hstate[h] # "lock" \/ ConflictFor(h))
    /\ [][\A h \in Handles :
            (hstate[h] = "lock" /\ hstate'[h] # "lock")
            => /\ hstate'[h] = "idle"
               /\ last'.op = "lock"
               /\ \/ last'.res = Ok /\ kcount'[h] > 0 /\ ~Contended(h)
                  \/ NativeFault(last'.res) /\ kcount'[h] = kcount[h]]_vars

\* A lock() that waited has returned Ok: the handle holds the Exclusive lock
\* of a file that the other Shared handles, unlocked since, hold no more.
C9_Witness ==
    /\ last.op = "lock" /\ last.res = Ok /\ last.waited
    /\ \E h \in Handles :
        /\ Exclusive(h) /\ Holds(h)
        /\ \A g \in Handles \ {h} :
            hstate[g] = "idle" /\ SameFile(g, h) /\ Shared(g) /\ ~Holds(g)

\* C10: teardown is best effort. drop always completes and hands nothing to
\* its caller whatever its unlock returned; the error of the unlock, and
\* nothing else, is logged; the locks of the other handles stay as they are.
C10_DropBestEffort ==
    /\ [](last.logged => last.op = "drop")
    /\ [](\A h \in Handles : hstate[h] = "idle" => ENABLED drop(h))
    /\ [][\A h \in Handles :
            (hstate[h] = "idle" /\ hstate'[h] = "none" /\ drop(h))
            => /\ kcount'[h] = 0
               /\ last'.op = "drop"
               /\ last'.res = Ok
               /\ last'.logged <=> last'.errno \in UnixFaults \cup WindowsFaults
               /\ \A g \in Handles \ {h} :
                    /\ hstate'[g] = hstate[g]
                    /\ kcount'[g] = kcount[g]
                    /\ kmode'[g] = kmode[g]]_vars

\* A handle was dropped, its unlock failed and was logged, and another
\* handle still holds its lock.
C10_Witness ==
    /\ last.op = "drop" /\ last.logged /\ last.res = Ok
    /\ \E g \in Handles : Holds(g)

Starved(h) == hstate[h] = "lock" /\ Exclusive(h) /\ ~Holds(h)

\* Handle g, not h, holds a Shared lock of h's file.
SharedHolder(g, h) == g # h /\ SameFile(g, h) /\ Shared(g) /\ Holds(g)

\* C12: no fairness among the waiters, starvation is possible. While a handle
\* waits in a blocking Exclusive lock(): (1) it is not granted the lock as
\* long as one Shared holder remains; (2) a Shared lock() of another handle
\* of the file is granted at once, past the waiter, whenever the lock is not
\* held Exclusive; (3) the unlock() of one of two overlapping Shared holders
\* leaves the waiter suspended behind the other. The Shared handles can so
\* release and acquire in turn for ever, each releasing after finitely many
\* steps, with the waiter never granted.
C12_StarvationPossible ==
    /\ [](\A h \in Handles :
            (Starved(h) /\ \E g \in Handles : SharedHolder(g, h))
            => ~ENABLED grant(h))
    /\ [](\A h \in Handles : \A g \in Handles \ {h} :
            (Starved(h) /\ SameFile(g, h) /\ Shared(g) /\ hstate[g] = "idle"
                /\ \E k \in Handles \ {g} : SharedHolder(k, h))
            => /\ \E o \in NativeLock(g, FALSE) : o.effect = "grant"
               /\ \A o \in NativeLock(g, FALSE) :
                    /\ o.effect # "wait"
                    /\ lock_file(o) = Ok \/ NativeFault(lock_file(o)))
    /\ [][\A h \in Handles : \A g \in Handles \ {h} :
            (Starved(h) /\ SharedHolder(g, h) /\ unlock(g)
                /\ \E k \in Handles \ {g} : SharedHolder(k, h))
            => /\ Starved(h)'
               /\ \E k \in Handles \ {g} : SharedHolder(k, h)']_vars

\* The liveness C12 denies: if every other handle is without a lock again
\* and again, a handle suspended in an Exclusive lock() leaves the call.
\* FairSpec and StrongFairSpec violate it, by the loop
\* C12_StarvationPossible describes.
WaiterEventuallyServed ==
    \A h \in Handles :
        (\A g \in Handles \ {h} : []<>~Holds(g))
        => (Starved(h) ~> ~Starved(h))

\* A handle waits in an Exclusive lock() while two Shared handles of the
\* file hold overlapping locks, the later one acquired by a lock() that
\* returned Ok without waiting.
C12_Witness ==
    /\ last.op = "lock" /\ last.res = Ok /\ ~last.waited
    /\ \E h \in Handles :
        /\ Starved(h)
        /\ \A g \in Handles \ {h} : SharedHolder(g, h)

\* C13: the mode of a handle is fixed at construction. is_shared() and
\* is_exclusive() report the mode new() was called with, exactly one of
\* them is true of a handle, no lock, try_lock or unlock, successful or
\* failed, changes them, they are the same with and without the lock held,
\* and every lock the handle holds is of that mode.
C13_ModeFixed ==
    /\ [](\A h \in Handles :
            Open(h) =>
                /\ Shared(h) # Exclusive(h)
                /\ Holds(h) => kmode[h] = IF Exclusive(h) THEN "EX" ELSE "SH")
    /\ [][\A h \in Handles :
            /\ (Open(h) /\ Open(h)')
                => /\ Shared(h)' = Shared(h)
                   /\ Exclusive(h)' = Exclusive(h)
            /\ \A path \in Files, mode \in FileLockMode :
                (~Open(h) /\ Open(h)' /\ new(h, path, mode))
                => /\ Shared(h)' = (mode = "Shared")
                   /\ Exclusive(h)' = (mode = "Exclusive")]_vars

\* A try_lock() has just been refused with AlreadyLocked; a Shared handle
\* holds the lock and an Exclusive handle of the same file holds none.
C13_Witness ==
    /\ last.op = "try_lock" /\ last.res = AlreadyLocked
    /\ \E h \in Handles : \E g \in Handles \ {h} :
        /\ SameFile(g, h)
        /\ Shared(h) /\ Holds(h)
        /\ Exclusive(g) /\ ~Holds(g) /\ hstate[g] = "idle"

\* The access the file of handle h was opened with.
Access(h) == OpenOptions(file_lock_mode[h])

\* C14: the construction contract. A failure of open other than the absence
\* of the file aside: new(path, Exclusive) on an absent file creates it and
\* yields a handle opened for reading and writing; new(path, Shared) on an
\* absent file returns Err(Io), creates nothing and yields no handle; on a
\* file that exists both yield a handle and create nothing. new acquires no
\* lock and leaves every lock and every other handle as they were.
C14_Construction ==
    [][\A h \in Handles, path \in Files, mode \in FileLockMode :
        (~Open(h) /\ last'.op = "new" /\ new(h, path, mode)) =>
            /\ kcount' = kcount /\ kmode' = kmode /\ ~Holds(h)'
            /\ \A g \in Handles \ {h} :
                hstate'[g] = hstate[g] /\ file'[g] = file[g]
            /\ Open(h)' <=> last'.res = Ok
            /\ Open(h)' => file'[h] = path /\ Access(h)'.read
            /\ last'.res.err \notin OpenFaults =>
                /\ (mode = "Exclusive" /\ path \notin exists)
                    => /\ Open(h)' /\ Access(h)'.write
                       /\ exists' = exists \cup {path}
                /\ (mode = "Shared" /\ path \notin exists)
                    => /\ ~Open(h)' /\ last'.res = Io("NotFound")
                       /\ exists' = exists
                /\ path \in exists
                    => /\ Open(h)' /\ exists' = exists
                       /\ Access(h)'.write = (mode = "Exclusive")]_vars

\* new(path, Shared) has just failed on a file that is absent, while a
\* handle constructed Exclusive on a file holds its lock.
C14_Witness ==
    /\ last.op = "new" /\ last.res = Io("NotFound")
    /\ exists # Files
    /\ \E g \in Handles : Exclusive(g) /\ Holds(g) /\ file[g] \in exists

\* The maximal byte range: offset 0, length the greatest representable.
WholeFile == ByteRange(0, 0, u32_MAX, u32_MAX)

\* Handle h makes a call that reaches LockFileEx or UnlockFileEx.
WindowsCall(h) ==
    /\ backend = "windows"
    /\ hstate[h] = "idle"
    /\ last'.op \in {"lock", "try_lock", "unlock", "drop"} \/ hstate'[h] = "lock"
    /\ lock(h) \/ try_lock(h) \/ unlock(h) \/ drop(h)

\* C15 as stated: on the Windows backend every lock, try_lock and unlock
\* operates on the maximal byte range, offset 0 with the greatest length,
\* and unlock passes the range lock passed.
C15_MaximalRange ==
    [][\A h \in Handles :
        WindowsCall(h)
        => /\ windows_lock_range = WholeFile
           /\ windows_unlock_range = windows_lock_range]_vars

\* C15 amended: on the Windows backend every lock, try_lock and unlock
\* operates on one fixed range, the single byte at the greatest offset
\* (offset u32::MAX:u32::MAX, length 1), the same for every handle; unlock
\* passes that very range, so that it releases a lock of the handle whenever
\* the handle holds one and fails with ERROR_NOT_LOCKED only when it holds
\* none.
C15_FixedByteRange ==
    /\ [](backend = "windows" =>
            /\ windows_lock_range = {MaxOffset}
            /\ windows_unlock_range = windows_lock_range
            /\ \A h \in Handles :
                hstate[h] = "idle"
                => \A o \in NativeUnlock(h) :
                      /\ (Holds(h) /\ o.errno \notin WindowsFaults)
                            => o.effect = "release" /\ unlock_file(o) = Ok
                      /\ o.errno = "ERROR_NOT_LOCKED" => ~Holds(h))
    /\ [][\A h \in Handles :
            (backend = "windows" /\ hstate[h] = "idle" /\ Holds(h)
                /\ last'.op = "unlock" /\ last'.errno = "none" /\ unlock(h))
            => last'.res = Ok /\ kcount'[h] = kcount[h] - 1]_vars

\* On Windows an unlock() has released the lock of its handle through
\* UnlockFileEx while another handle keeps its own.
C15_Witness ==
    /\ backend = "windows"
    /\ last.op = "unlock" /\ last.res = Ok /\ last.errno = "none"
    /\ \E h \in Handles : \E g \in Handles \ {h} :
        hstate[h] = "idle" /\ ~Holds(h) /\ SameFile(g, h) /\ Holds(g)

\* A lock() or try_lock() of handle h returns in this step: at once, or
\* after its thread was suspended.
Returns(h) ==
    \/ (lock(h) \/ try_lock(h)) /\ hstate'[h] = "idle"
    \/ grant(h)
    \/ interrupt(h)

\* C16: a failed acquisition changes nothing. When try_lock() returns
\* AlreadyLocked, or lock() or try_lock() returns Io, every handle holds
\* after the call the locks it held before it, the calling handle included.
C16_FailureChangesNothing ==
    [][\A h \in Handles :
        (last'.res.tag \in {"AlreadyLocked", "Io"}
            /\ last'.op \in {"lock", "try_lock"} /\ Returns(h))
        => /\ kcount' = kcount
           /\ kmode' = kmode
           /\ hstate'[h] = "idle"
           /\ \A g \in Handles \ {h} : hstate'[g] = hstate[g]]_vars

\* The only open handle holds its Exclusive lock and its try_lock() was
\* just refused: on Windows the request conflicts with the handle's own lock.
C16_Witness ==
    /\ last.op = "try_lock" /\ last.res.tag = "Io" /\ ~NativeFault(last.res)
    /\ \E h \in Handles :
        /\ Exclusive(h) /\ Holds(h) /\ hstate[h] = "idle"
        /\ \A g \in Handles \ {h} : ~Open(g)

\* C17: release is local to the handle. unlock() or drop of a handle leaves
\* the locks of every other handle, of the same file or of another, as they
\* were, and a handle loses a lock only in a step that is its own unlock()
\* or drop.
C17_ReleaseLocal ==
    [][/\ \A h \in Handles :
            (hstate[h] = "idle" /\ last'.op \in {"unlock", "drop"}
                /\ (unlock(h) \/ drop(h)))
            => \A g \in Handles \ {h} :
                  /\ kcount'[g] = kcount[g]
                  /\ kmode'[g] = kmode[g]
                  /\ hstate'[g] = hstate[g]
       /\ \A g \in Handles :
            (kcount'[g] < kcount[g] \/ (Holds(g) /\ kmode'[g] # kmode[g]))
            => unlock(g) \/ drop(g)]_vars

\* A handle has unlocked and holds nothing, while another Shared handle of
\* the same file and a handle of another file go on holding their locks.
C17_Witness ==
    /\ last.op = "unlock" /\ last.res = Ok
    /\ \E a, b, c \in Handles :
        /\ hstate[a] = "idle" /\ Shared(a) /\ ~Holds(a)
        /\ b # a /\ SameFile(a, b) /\ Shared(b) /\ Holds(b)
        /\ Open(c) /\ file[c] # file[a] /\ Holds(c)

\* Handle h, idle and holding its lock, calls lock() or try_lock().
Reacquires(h) ==
    /\ hstate[h] = "idle" /\ Holds(h)
    /\ last'.op \in {"lock", "try_lock"} \/ hstate'[h] = "lock"
    /\ lock(h) \/ try_lock(h)

\* C18 as stated: locks are not recursive. A second lock() or try_lock() on
\* a handle that holds its lock completes without waiting, the handle then
\* holds exactly one lock, and a single unlock() that returns Ok leaves the
\* handle with no lock.
C18_NotRecursive ==
    [][\A h \in Handles :
        /\ Reacquires(h) => hstate'[h] = "idle" /\ kcount'[h] = 1
        /\ (hstate[h] = "idle" /\ last'.op = "unlock" /\ last'.res = Ok
                /\ unlock(h))
            => kcount'[h] = 0]_vars

\* C18 amended: the handle keeps no count and what a second acquisition
\* does is the lock manager's matter. Under flock it completes at once, the
\* handle holds one lock and one unlock() returning Ok leaves it with none.
\* Under LockFileEx the second acquisition of a Shared handle is one more
\* lock, taken without waiting, and each unlock() that finds a lock
\* releases one; the second acquisition of an Exclusive handle conflicts
\* with the handle's own lock: lock() waits on it, try_lock() is refused,
\* the handle holding its one lock. No call changes a field of the handle.
C18_ReacquireByBackend ==
    [][\A h \in Handles :
        /\ Reacquires(h) =>
            IF backend = "unix"
            THEN /\ hstate'[h] = "idle" /\ kcount'[h] = 1
                 /\ last'.res = Ok \/ NativeFault(last'.res)
            ELSE IF Shared(h)
            THEN /\ hstate'[h] = "idle"
                 /\ \/ last'.res = Ok /\ kcount'[h] = kcount[h] + 1
                    \/ NativeFault(last'.res) /\ kcount'[h] = kcount[h]
            ELSE /\ kcount'[h] = kcount[h] /\ kcount[h] = 1
                 /\ \/ hstate'[h] = "lock"
                    \/ /\ hstate'[h] = "idle"
                       /\ last'.res.tag # "Ok"
                       /\ last'.op = "lock" => NativeFault(last'.res)
        /\ (hstate[h] = "idle" /\ last'.op = "unlock" /\ last'.res = Ok
                /\ unlock(h))
            => kcount'[h] = IF backend = "unix" \/ kcount[h] = 0
                            THEN 0 ELSE kcount[h] - 1
        /\ (Open(h) /\ Open(h)')
            => file'[h] = file[h] /\ file_lock_mode'[h] = file_lock_mode[h]]_vars

\* On Windows a Shared handle has acquired its lock a second time and holds
\* two locks.
C18_Witness ==
    /\ backend = "windows"
    /\ last.op \in {"lock", "try_lock"} /\ last.res = Ok
    /\ \E h \in Handles : Shared(h) /\ kcount[h] = 2 /\ hstate[h] = "idle"

====
